---- MODULE Spec2Model ----
(***************************************************************************)
(* Model of src/main.py: the /info resolution pipeline (normalisation,     *)
(* alias lookup, primary GraphQL query, translation fallback with one      *)
(* retried query, "not found" response) and the ROA paging view            *)
(* (generar_embed_por_roa, ROAView, ROAButton).                            *)
(*                                                                         *)
(* Strings are sequences of one-character strings.  Python indices are     *)
(* 0-based, TLA+ sequences 1-based: roas[index] in the code is             *)
(* roas[index + 1] here.  An optional value (None / not yet set) is the    *)
(* empty sequence, a present value v is <<v>>.                             *)
(***************************************************************************)
EXTENDS Integers, Sequences, FiniteSets, TLC

VARIABLES
    ALIASES,                      \* the alias dict, in insertion order
    VALID_SUBSTANCES,             \* the known-names list
    pc,                           \* position of the /info coroutine
    sustancia,                    \* the command's parameter
    sustancia_input_original,     \* line 151
    sustancia_input_normalizada,  \* line 152
    variables,                    \* the GraphQL variables: [name |-> ...]
    substances,                   \* the record list of the run
    primary_resp,                 \* what the primary post produced (optional)
    traducido,                    \* what the translator produced (optional)
    retry_resp,                   \* what the retried post produced (optional)
    log,                          \* the run's steps, in order
    sent,                         \* the followup messages of the run, in order
    crashed,                      \* an exception left the info coroutine
    info_data,                    \* the record handed to the presenter (optional)
    embed,                        \* the embed of the record's message (optional)
    view,                         \* the ROAView attached to that message (optional)
    clicked,                      \* index of the button last pressed (optional)
    sugerencias,                  \* the suggestions of the run's "not found" response
    sugerencia_msg,               \* the suggestion line of that response (optional)
    updates,                      \* how many alias updates were confirmed
    admin_msg,                    \* the message the last confirmation sent (optional)
    last_update,                  \* the texts of the last confirmation (optional)
    embeds_to_send                \* the embeds the last /aliases sent, in order

vars == << ALIASES, VALID_SUBSTANCES, pc, sustancia, sustancia_input_original,
           sustancia_input_normalizada, variables, substances, primary_resp,
           traducido, retry_resp, log, sent, crashed, info_data, embed, view,
           clicked, sugerencias, sugerencia_msg, updates, admin_msg,
           last_update, embeds_to_send >>

\* What the alias command leaves behind besides the alias state itself.
alias_admin == << updates, admin_msg, last_update, embeds_to_send >>

(***************************************************************************)
(* Bounds                                                                  *)
(***************************************************************************)
MaxLen == 1
MaxRoas == 3
MaxRecords == 2
MaxNames == 4
MaxUpdates == 1
MaxAliases == 3

(***************************************************************************)
(* Strings                                                                 *)
(***************************************************************************)
Alphabet == {"a", "A", "á", " "}

Strings == UNION {[1..n -> Alphabet] : n \in 0..MaxLen}

lower_char(c) ==
    CASE c = "A" -> "a"
      [] c = "Ñ" -> "ñ"
      [] OTHER -> c

lower(s) == [i \in 1..Len(s) |-> lower_char(s[i])]

strip(s) ==
    LET keep == {i \in 1..Len(s) : s[i] # " "}
        lo == CHOOSE i \in keep : \A j \in keep : i <= j
        hi == CHOOSE i \in keep : \A j \in keep : j <= i
    IN  IF keep = {} THEN <<>> ELSE SubSeq(s, lo, hi)

\* unicodedata.normalize('NFKD', c): the canonical decomposition of a character;
\* "´" and "~" stand for the combining marks U+0301 and U+0303.
nfkd_char(c) ==
    CASE c = "á" -> <<"a", "´">>
      [] c = "ñ" -> <<"n", "~">>
      [] c = "Ñ" -> <<"N", "~">>
      [] OTHER -> <<c>>

combining(c) == c \in {"´", "~"}

RECURSIVE nfkd(_)
nfkd(s) == IF s = <<>> THEN <<>> ELSE nfkd_char(Head(s)) \o nfkd(Tail(s))

replace_char(c) ==
    CASE c = "ñ" -> "n"
      [] c = "Ñ" -> "N"
      [] OTHER -> c

normalizar_texto(texto) ==
    LET nfkd_form == nfkd(texto)
        without_accents == SelectSeq(nfkd_form, LAMBDA c : ~combining(c))
        normalized == [i \in 1..Len(without_accents) |-> replace_char(without_accents[i])]
    IN  lower(normalized)

(***************************************************************************)
(* The alias table                                                         *)
(***************************************************************************)
InitialAliases ==
    << [alias |-> <<"a">>, target |-> <<"a", "a">>],
       [alias |-> <<" ", "a">>, target |-> <<"a", "a">>],
       [alias |-> <<" ">>, target |-> <<"a">>] >>

\* dict.get that never finds the key.
ALIASES_get_default(table, key, default) == default

\* dict.get(key, default)
ALIASES_get(table, key, default) ==
    IF \E i \in 1..Len(table) : table[i].alias = key
    THEN LET i == CHOOSE i \in 1..Len(table) : table[i].alias = key IN table[i].target
    ELSE default

\* list(ALIASES.values())
ALIASES_values(table) == [i \in 1..Len(table) |-> table[i].target]

\* ALIASES[key] = value: the entry of an existing key keeps its place, a new
\* key is added at the end.
ALIASES_set(table, key, value) ==
    IF \E i \in 1..Len(table) : table[i].alias = key
    THEN [i \in 1..Len(table) |->
             IF table[i].alias = key
             THEN [alias |-> key, target |-> value]
             ELSE table[i]]
    ELSE Append(table, [alias |-> key, target |-> value])

\* x in list
list_contains(list, x) == \E i \in 1..Len(list) : list[i] = x

\* list(set(list)): the distinct entries, in an order that hashing decides.
list_of_set(list) ==
    LET S == {list[i] : i \in 1..Len(list)}
    IN  {order \in [1..Cardinality(S) -> S] :
            \A i, j \in 1..Cardinality(S) : order[i] = order[j] => i = j}

(***************************************************************************)
(* difflib.get_close_matches                                               *)
(***************************************************************************)
\* The code point of a character, which orders strings.
ord(c) ==
    CASE c = " " -> 32
      [] c = "A" -> 65
      [] c = "N" -> 78
      [] c = "a" -> 97
      [] c = "n" -> 110
      [] c = "Ñ" -> 209
      [] c = "á" -> 225
      [] c = "ñ" -> 241
      [] c = "´" -> 769
      [] c = "~" -> 771
      [] OTHER -> 0

\* x < y for two strings.
str_lt(x, y) ==
    \E k \in 1..Len(y) :
        /\ k - 1 <= Len(x)
        /\ \A i \in 1..(k - 1) : x[i] = y[i]
        /\ (k > Len(x) \/ ord(x[k]) < ord(y[k]))

\* SequenceMatcher.find_longest_match without junk, on a[alo:ahi] and
\* b[blo:bhi] (0-based, half-open): the longest matching block <<i, j, k>>,
\* of those the one that starts earliest in a, of those the earliest in b.
find_longest_match(a, b, alo, ahi, blo, bhi) ==
    LET blocks == {m \in (alo..(ahi - 1)) \X (blo..(bhi - 1)) \X (1..(ahi - alo)) :
                      /\ m[1] + m[3] <= ahi
                      /\ m[2] + m[3] <= bhi
                      /\ \A d \in 0..(m[3] - 1) : a[m[1] + d + 1] = b[m[2] + d + 1]}
    IN  IF blocks = {}
        THEN <<alo, blo, 0>>
        ELSE CHOOSE m \in blocks :
                \A o \in blocks :
                    \/ m[3] > o[3]
                    \/ /\ m[3] = o[3]
                       /\ (m[1] < o[1] \/ (m[1] = o[1] /\ m[2] <= o[2]))

\* The total size of SequenceMatcher.get_matching_blocks: the longest block,
\* then the same to its left and to its right.
RECURSIVE matching_size(_, _, _, _, _, _)
matching_size(a, b, alo, ahi, blo, bhi) ==
    LET m == find_longest_match(a, b, alo, ahi, blo, bhi)
        i == m[1]
        j == m[2]
        k == m[3]
    IN  IF k = 0
        THEN 0
        ELSE k + (IF alo < i /\ blo < j
                  THEN matching_size(a, b, alo, i, blo, j) ELSE 0)
               + (IF i + k < ahi /\ j + k < bhi
                  THEN matching_size(a, b, i + k, ahi, j + k, bhi) ELSE 0)

\* SequenceMatcher(None, a, b).ratio() as the fraction <<numerator, denominator>>:
\* 2.0 * matches / (len(a) + len(b)), and 1.0 when both are empty.
ratio(a, b) ==
    IF Len(a) + Len(b) = 0
    THEN <<1, 1>>
    ELSE <<2 * matching_size(a, b, 0, Len(a), 0, Len(b)), Len(a) + Len(b)>>

\* n=3 and cutoff=0.6 (as 6/10) of the call at line 205.
SuggestionLimit == 3
CutoffNumerator == 6
CutoffDenominator == 10

ratio_ge_cutoff(r) == r[1] * CutoffDenominator >= CutoffNumerator * r[2]

\* (score, x) > (score', y) for the tuples get_close_matches sorts.
scored_gt(r, x, q, y) ==
    \/ r[1] * q[2] > q[1] * r[2]
    \/ r[1] * q[2] = q[1] * r[2] /\ str_lt(y, x)

\* heapq.nlargest(n, result): the n largest (score, x), largest first.
RECURSIVE nlargest(_, _, _)
nlargest(n, word, items) ==
    IF n = 0 \/ items = <<>>
    THEN <<>>
    ELSE LET top == CHOOSE i \in 1..Len(items) :
                       /\ \A j \in 1..Len(items) :
                             ~scored_gt(ratio(items[j], word), items[j],
                                        ratio(items[i], word), items[i])
                       /\ \A j \in 1..(i - 1) : items[j] # items[i]
             rest == [j \in 1..(Len(items) - 1) |->
                         IF j < top THEN items[j] ELSE items[j + 1]]
         IN  <<items[top]>> \o nlargest(n - 1, word, rest)

\* get_close_matches with the cutoff test dropped.
get_close_matches_no_cutoff(word, possibilities) ==
    nlargest(SuggestionLimit, word, possibilities)

\* get_close_matches with the limit n dropped.
get_close_matches_no_limit(word, possibilities) ==
    LET result == SelectSeq(possibilities, LAMBDA x : ratio_ge_cutoff(ratio(x, word)))
    IN  nlargest(Len(result), word, result)

\* difflib.get_close_matches(word, possibilities, n=3, cutoff=0.6): x is kept
\* when real_quick_ratio(), quick_ratio() and ratio() all reach the cutoff; the
\* first two are upper bounds of ratio(), so ratio() decides.
get_close_matches(word, possibilities) ==
    LET result == SelectSeq(possibilities, LAMBDA x : ratio_ge_cutoff(ratio(x, word)))
    IN  nlargest(SuggestionLimit, word, result)

(***************************************************************************)
(* Records of the remote API                                               *)
(***************************************************************************)
RoaNames == <<"oral", "insufflated", "transdermal">>

\* The emoji of a ROA name (each emoji is written as its name).
ROA_EMOJIS(name) ==
    CASE name = "oral" -> "pill"
      [] name = "insufflated" -> "nose"
      [] name = "smoked" -> "cigarette"
      [] name = "intravenous" -> "syringe_blood"
      [] name = "intramuscular" -> "syringe_arm"
      [] name = "sublingual" -> "tongue"
      [] name = "rectal" -> "target"
      [] OTHER -> "question"

\* The i-th ROA of a record: a name and its dose/duration/bioavailability data,
\* which the model keeps as one value that differs from ROA to ROA.
Roa(i) == [name |-> RoaNames[((i - 1) % Len(RoaNames)) + 1], dose |-> 10 * i]

\* A substance record with n ROAs; its name is kept as the number n.
Record(n) == [name |-> n, roas |-> [i \in 1..n |-> Roa(i)]]

Records == {Record(n) : n \in 0..MaxRoas}

RecordLists == UNION {[1..k -> Records] : k \in 0..MaxRecords}

(***************************************************************************)
(* Responses of the remote API and of the translator                       *)
(***************************************************************************)
\* The body of a response:
\*   kind "empty"    raw_text is ""
\*        "invalid"  json.loads raises JSONDecodeError
\*        "falsy"    valid JSON, a falsy value that is no object (null, 0, [])
\*        "nondict"  valid JSON, a truthy value that is no object ([1], "x", 5)
\*        "object"   a JSON object, with
\*   errors "absent" | "empty" (errors: []) | "nonempty"
\*   data   "absent" (no data key, or null) | "empty" (data: {}) |
\*          "nonobj" (a truthy value that is no object) | "obj"
\*   substances  the value of data.substances (the empty list when absent)
PlainBody(kind) == [kind |-> kind, errors |-> "absent", data |-> "absent", substances |-> <<>>]

Bodies ==
    {PlainBody(k) : k \in {"empty", "invalid", "falsy", "nondict"}}
    \cup {[kind |-> "object", errors |-> e, data |-> d, substances |-> <<>>] :
            e \in {"absent", "empty", "nonempty"}, d \in {"absent", "empty", "nonobj"}}
    \cup {[kind |-> "object", errors |-> e, data |-> "obj", substances |-> l] :
            e \in {"absent", "empty", "nonempty"}, l \in RecordLists}

\* What session.post(...) produces: the transport raises aiohttp.ClientError,
\* raises asyncio.TimeoutError (the session's total timeout), or answers with
\* a status (200, another success status, or an error status) and a body.
\* The body of an error answer is only logged.
Responses ==
    {[transport |-> t, status |-> 0, body |-> PlainBody("empty")] :
        t \in {"client_error", "timeout"}}
    \cup {[transport |-> "ok", status |-> 500, body |-> PlainBody("empty")]}
    \cup {[transport |-> "ok", status |-> s, body |-> b] : s \in {200, 201}, b \in Bodies}

\* What GoogleTranslator(...).translate(...) produces.
Translations ==
    {[kind |-> k, text |-> <<>>] : k \in {"raise", "none"}}
    \cup {[kind |-> "str", text |-> t] : t \in Strings}

(***************************************************************************)
(* The ROA presenter                                                       *)
(***************************************************************************)
\* An embed: its title, the dose/duration/bioavailability fields of the ROA it
\* shows (none for the base embed) and its footer (index + 1, len(roas)).
crear_embed_base(info) ==
    [title |-> [kind |-> "base", name |-> info.name, emoji |-> "", roa |-> ""],
     dose |-> <<>>,
     footer |-> <<>>]

\* generar_embed_por_roa with the footer position not advanced by one.
generar_embed_por_roa_footer_index(info, index) ==
    LET e == crear_embed_base(info)
        roas == info.roas
    IN  IF index >= Len(roas)
        THEN e
        ELSE LET roa == roas[index + 1]
             IN  [title |-> [kind |-> "roa", name |-> info.name,
                             emoji |-> ROA_EMOJIS(roa.name), roa |-> roa.name],
                  dose |-> <<roa.dose>>,
                  footer |-> <<index, Len(roas)>>]

generar_embed_por_roa(info, index) ==
    LET e == crear_embed_base(info)
        roas == info.roas
    IN  IF index >= Len(roas)
        THEN e
        ELSE LET roa == roas[index + 1]
             IN  [title |-> [kind |-> "roa", name |-> info.name,
                             emoji |-> ROA_EMOJIS(roa.name), roa |-> roa.name],
                  dose |-> <<roa.dose>>,
                  footer |-> <<index + 1, Len(roas)>>]

ROAButton(info, index, label, emoji) ==
    [info |-> info, index |-> index, label |-> label, emoji |-> emoji]

\* ROAView with the check mark always on the first button.
ROAView_check_on_first(info, current) ==
    [info |-> info,
     current |-> current,
     children |-> [k \in 1..Len(info.roas) |->
                     LET i == k - 1
                         roa_name_api == info.roas[k].name
                         label == <<ROA_EMOJIS(roa_name_api), roa_name_api>>
                         emoji == IF i = 0 THEN "check" ELSE "none"
                     IN  ROAButton(info, i, label, emoji)]]

\* ROAView.__init__: one button per ROA, the check mark on button `current`.
ROAView(info, current) ==
    [info |-> info,
     current |-> current,
     children |-> [k \in 1..Len(info.roas) |->
                     LET i == k - 1
                         roa_name_api == info.roas[k].name
                         label == <<ROA_EMOJIS(roa_name_api), roa_name_api>>
                         emoji == IF i = current THEN "check" ELSE "none"
                     IN  ROAButton(info, i, label, emoji)]]

(***************************************************************************)
(* The /info pipeline: what each step computes                             *)
(***************************************************************************)
ApiFailureMessages == {"api_status", "api_problem", "api_json", "api_connection"}

Failure(msg) == [kind |-> "failure", msg |-> msg, substances |-> <<>>]
Uncaught == [kind |-> "uncaught", msg |-> "", substances |-> <<>>]
Success(subs) == [kind |-> "success", msg |-> "", substances |-> subs]

\* primary_result without the check of the error list at line 172.
primary_result_ignoring_errors(resp) ==
    IF resp.transport = "client_error" THEN Failure("api_connection")
    ELSE IF resp.transport = "timeout" THEN Uncaught
    ELSE IF resp.status # 200 THEN Failure("api_status")
    ELSE IF resp.body.kind = "invalid" THEN Failure("api_json")
    ELSE IF resp.body.kind \in {"empty", "falsy"} THEN Failure("api_problem")
    ELSE IF resp.body.kind = "nondict" THEN Uncaught
    ELSE IF resp.body.data \in {"absent", "empty"} THEN Failure("api_problem")
    ELSE IF resp.body.data = "nonobj" THEN Uncaught
    ELSE Success(resp.body.substances)

\* primary_result with an empty record list reported as an API problem.
primary_result_empty_is_failure(resp) ==
    IF resp.transport = "client_error" THEN Failure("api_connection")
    ELSE IF resp.transport = "timeout" THEN Uncaught
    ELSE IF resp.status # 200 THEN Failure("api_status")
    ELSE IF resp.body.kind = "invalid" THEN Failure("api_json")
    ELSE IF resp.body.kind \in {"empty", "falsy"} THEN Failure("api_problem")
    ELSE IF resp.body.kind = "nondict" THEN Uncaught
    ELSE IF resp.body.errors = "nonempty" THEN Failure("api_problem")
    ELSE IF resp.body.data \in {"absent", "empty"} THEN Failure("api_problem")
    ELSE IF resp.body.data = "nonobj" THEN Uncaught
    ELSE IF resp.body.substances = <<>> THEN Failure("api_problem")
    ELSE Success(resp.body.substances)

\* Lines 159-187: the try block around the primary post and its two handlers.
\* asyncio.TimeoutError is not an aiohttp.ClientError, and the AttributeError of
\* .get on a value that is no dict is no JSONDecodeError: both leave info.
primary_result(resp) ==
    IF resp.transport = "client_error" THEN Failure("api_connection")
    ELSE IF resp.transport = "timeout" THEN Uncaught
    ELSE IF resp.status # 200 THEN Failure("api_status")
    ELSE IF resp.body.kind = "invalid" THEN Failure("api_json")
    ELSE IF resp.body.kind \in {"empty", "falsy"} THEN Failure("api_problem")
    ELSE IF resp.body.kind = "nondict" THEN Uncaught
    ELSE IF resp.body.errors = "nonempty" THEN Failure("api_problem")
    ELSE IF resp.body.data \in {"absent", "empty"} THEN Failure("api_problem")
    ELSE IF resp.body.data = "nonobj" THEN Uncaught
    ELSE Success(resp.body.substances)

\* needs_fallback with the test of line 189 dropped.
needs_fallback_always(subs) == TRUE

\* Line 189: if not substances
needs_fallback(subs) == subs = <<>>

\* should_retry with the translation compared as it is, not lower-cased.
should_retry_case_sensitive(tr, original) ==
    /\ tr.kind = "str"
    /\ tr.text # <<>>
    /\ tr.text # original

\* Line 192: if traducido and traducido.lower() != sustancia_input_original.
\* A translator that raises is handled at line 201: no retried query either.
should_retry(tr, original) ==
    /\ tr.kind = "str"
    /\ tr.text # <<>>
    /\ lower(tr.text) # original

\* Lines 195-202: the record list after the retried post.  Every exception
\* (ClientError, TimeoutError, JSONDecodeError, AttributeError) is caught at
\* line 201 and leaves substances as it was.
retry_substances(resp, subs) ==
    IF resp.transport # "ok" THEN subs
    ELSE IF resp.status # 200 THEN subs
    ELSE IF resp.body.kind # "object" THEN subs
    ELSE IF resp.body.data # "obj" THEN subs
    ELSE resp.body.substances

\* Line 214: info_data = substances[0]
first_record(subs) == subs[1]

\* Line 206 with the two messages swapped.
sugerencia_msg_swapped(found) ==
    IF found # <<>>
    THEN [kind |-> "no_suggestions", names |-> <<>>]
    ELSE [kind |-> "did_you_mean", names |-> found]

\* Line 206: "No se encontraron sugerencias." if not sugerencias, else the
\* "¿Quisiste decir: ...?" line with the suggestions joined.
sugerencia_msg_for(found) ==
    IF found = <<>>
    THEN [kind |-> "no_suggestions", names |-> <<>>]
    ELSE [kind |-> "did_you_mean", names |-> found]

\* Line 216 with the test len(roas) > 0.
multiple_roas_from_one(roas) == Len(roas) > 0

\* Line 216: if len(roas) > 1
multiple_roas(roas) == Len(roas) > 1

\* Lines 204-220: the response for the record list `subs`, from the log `lg`.
respond(subs, lg) ==
    IF subs = <<>>
    THEN /\ sugerencias' = get_close_matches(sustancia_input_normalizada,
                                             VALID_SUBSTANCES)
         /\ sugerencia_msg' = <<sugerencia_msg_for(sugerencias')>>
         /\ log' = lg \o <<"suggest", "send">>
         /\ sent' = Append(sent, "not_found")
         /\ info_data' = <<>>
         /\ embed' = <<>>
         /\ view' = <<>>
    ELSE LET record == first_record(subs)
         IN  /\ log' = Append(lg, "send")
             /\ info_data' = <<record>>
             /\ UNCHANGED <<sugerencias, sugerencia_msg>>
             /\ IF multiple_roas(record.roas)
                THEN \* mostrar_info_por_roa
                     /\ embed' = <<generar_embed_por_roa(record, 0)>>
                     /\ view' = <<ROAView(record, 0)>>
                     /\ sent' = Append(sent, "interactive")
                ELSE /\ embed' = <<generar_embed_por_roa(record, 0)>>
                     /\ view' = <<>>
                     /\ sent' = Append(sent, "static")

(***************************************************************************)
(* The state machine                                                       *)
(***************************************************************************)
Init ==
    /\ ALIASES = InitialAliases
    /\ VALID_SUBSTANCES = ALIASES_values(InitialAliases)
    /\ pc = "idle"
    /\ sustancia = <<>>
    /\ sustancia_input_original = <<>>
    /\ sustancia_input_normalizada = <<>>
    /\ variables = [name |-> <<>>]
    /\ substances = <<>>
    /\ primary_resp = <<>>
    /\ traducido = <<>>
    /\ retry_resp = <<>>
    /\ log = <<>>
    /\ sent = <<>>
    /\ crashed = FALSE
    /\ info_data = <<>>
    /\ embed = <<>>
    /\ view = <<>>
    /\ clicked = <<>>
    /\ sugerencias = <<>>
    /\ sugerencia_msg = <<>>
    /\ updates = 0
    /\ admin_msg = <<>>
    /\ last_update = <<>>
    /\ embeds_to_send = <<>>

\* /info is invoked with the text s: lines 136-160, up to the primary post.
info_start(s) ==
    /\ pc = "idle"
    /\ sustancia' = s
    /\ sustancia_input_original' = strip(lower(s))
    /\ sustancia_input_normalizada' = normalizar_texto(sustancia_input_original')
    /\ variables' = [name |-> ALIASES_get(ALIASES, sustancia_input_normalizada',
                                          sustancia_input_normalizada')]
    /\ substances' = <<>>
    /\ log' = <<"query">>
    /\ pc' = "await_primary"
    /\ UNCHANGED <<ALIASES, VALID_SUBSTANCES, alias_admin, primary_resp, traducido, retry_resp,
                   sent, crashed, info_data, embed, view, clicked, sugerencias,
                   sugerencia_msg>>

\* The primary post produces resp: lines 160-189, and lines 204-220 when the
\* record list is not empty.
info_primary(resp) ==
    /\ pc = "await_primary"
    /\ primary_resp' = <<resp>>
    /\ LET r == primary_result(resp)
           lg == Append(log, "completed")
       IN  CASE r.kind = "failure" ->
                 /\ sent' = Append(sent, r.msg)
                 /\ log' = Append(lg, "send")
                 /\ pc' = "done"
                 /\ UNCHANGED <<substances, crashed, info_data, embed, view, sugerencias,
                                 sugerencia_msg>>
             [] r.kind = "uncaught" ->
                 /\ crashed' = TRUE
                 /\ log' = lg
                 /\ pc' = "done"
                 /\ UNCHANGED <<substances, sent, info_data, embed, view, sugerencias,
                                 sugerencia_msg>>
             [] r.kind = "success" ->
                 /\ substances' = r.substances
                 /\ IF needs_fallback(r.substances)
                    THEN /\ log' = lg
                         /\ pc' = "translate"
                         /\ UNCHANGED <<sent, crashed, info_data, embed, view, sugerencias,
                                 sugerencia_msg>>
                    ELSE /\ respond(r.substances, lg)
                         /\ pc' = "done"
                         /\ UNCHANGED crashed
    /\ UNCHANGED <<ALIASES, VALID_SUBSTANCES, alias_admin, sustancia, sustancia_input_original,
                   sustancia_input_normalizada, variables, traducido, retry_resp,
                   clicked>>

\* The translator, a blocking call, produces tr: lines 190-195 up to the retried
\* post, and lines 204-212 when no retried query is issued.
info_translate(tr) ==
    /\ pc = "translate"
    /\ traducido' = <<tr>>
    /\ IF should_retry(tr, sustancia_input_original)
       THEN /\ variables' = [name |-> lower(tr.text)]
            /\ log' = log \o <<"translate", "query">>
            /\ pc' = "await_retry"
            /\ UNCHANGED <<sent, info_data, embed, view, sugerencias,
                                 sugerencia_msg>>
       ELSE /\ respond(substances, Append(log, "translate"))
            /\ pc' = "done"
            /\ UNCHANGED variables
    /\ UNCHANGED <<ALIASES, VALID_SUBSTANCES, alias_admin, sustancia, sustancia_input_original,
                   sustancia_input_normalizada, substances, primary_resp, retry_resp,
                   crashed, clicked>>

\* info_retry that posts the query again while the record list is empty.
info_retry_until_found(resp) ==
    /\ pc = "await_retry"
    /\ retry_resp' = <<resp>>
    /\ substances' = retry_substances(resp, substances)
    /\ IF substances' = <<>>
       THEN /\ log' = log \o <<"completed", "query">>
            /\ pc' = "await_retry"
            /\ UNCHANGED <<sent, info_data, embed, view, sugerencias,
                                 sugerencia_msg>>
       ELSE /\ respond(substances', Append(log, "completed"))
            /\ pc' = "done"
    /\ UNCHANGED <<ALIASES, VALID_SUBSTANCES, alias_admin, sustancia, sustancia_input_original,
                   sustancia_input_normalizada, variables, primary_resp, traducido,
                   crashed, clicked>>

\* The retried post produces resp: lines 195-220.
info_retry(resp) ==
    /\ pc = "await_retry"
    /\ retry_resp' = <<resp>>
    /\ substances' = retry_substances(resp, substances)
    /\ respond(substances', Append(log, "completed"))
    /\ pc' = "done"
    /\ UNCHANGED <<ALIASES, VALID_SUBSTANCES, alias_admin, sustancia, sustancia_input_original,
                   sustancia_input_normalizada, variables, primary_resp, traducido,
                   crashed, clicked>>

\* ROAButton_callback that moves to the ROA after the button's.
ROAButton_callback_next(b) ==
    /\ view # <<>>
    /\ b \in 1..Len(view[1].children)
    /\ LET self == view[1].children[b]
       IN  /\ embed' = <<generar_embed_por_roa(self.info, self.index + 1)>>
           /\ view' = <<ROAView(self.info, self.index + 1)>>
           /\ clicked' = <<self.index>>
    /\ UNCHANGED <<ALIASES, VALID_SUBSTANCES, alias_admin, pc, sustancia, sustancia_input_original,
                   sustancia_input_normalizada, variables, substances, primary_resp,
                   traducido, retry_resp, log, sent, crashed, info_data, sugerencias,
                   sugerencia_msg>>

\* The user presses the b-th button of the view: ROAButton.callback edits the
\* message to the button's embed and a new ROAView.
ROAButton_callback(b) ==
    /\ view # <<>>
    /\ b \in 1..Len(view[1].children)
    /\ LET self == view[1].children[b]
       IN  /\ embed' = <<generar_embed_por_roa(self.info, self.index)>>
           /\ view' = <<ROAView(self.info, self.index)>>
           /\ clicked' = <<self.index>>
    /\ UNCHANGED <<ALIASES, VALID_SUBSTANCES, alias_admin, pc, sustancia, sustancia_input_original,
                   sustancia_input_normalizada, variables, substances, primary_resp,
                   traducido, retry_resp, log, sent, crashed, info_data, sugerencias,
                   sugerencia_msg>>

\* The run's variables, which the alias command leaves alone.
info_run == << pc, sustancia, sustancia_input_original, sustancia_input_normalizada,
               variables, substances, primary_resp, traducido, retry_resp, log,
               sent, crashed, info_data, embed, view, clicked, sugerencias,
               sugerencia_msg >>

\* The texts an admin gives to /alias: the empty text and the texts of one
\* character, which are plain, upper case, accented or blank.
AliasTexts == {<<>>} \cup {<<c>> : c \in Alphabet}

\* confirm with an await between line 294 and line 295: the step up to it.
ConfirmAliasView_confirm_suspended(alias_name, target_name, write_ok) ==
    LET normalized_alias == normalizar_texto(alias_name)
        normalized_target == strip(lower(target_name))
    IN  /\ updates < MaxUpdates
        /\ ALIASES' = ALIASES_set(ALIASES, normalized_alias, normalized_target)
        /\ admin_msg' = <<>>
        /\ updates' = updates + 1
        /\ last_update' = <<[alias_name |-> alias_name, target_name |-> target_name]>>
        /\ UNCHANGED <<VALID_SUBSTANCES, info_run, embeds_to_send>>

\* confirm that takes the new entry back when the file cannot be written.
ConfirmAliasView_confirm_rollback(alias_name, target_name, write_ok) ==
    LET normalized_alias == normalizar_texto(alias_name)
        normalized_target == strip(lower(target_name))
        table == ALIASES_set(ALIASES, normalized_alias, normalized_target)
    IN  /\ updates < MaxUpdates
        /\ IF write_ok
           THEN /\ ALIASES' = table
                /\ VALID_SUBSTANCES' \in list_of_set(ALIASES_values(table))
                /\ admin_msg' = <<"alias_saved">>
           ELSE /\ UNCHANGED <<ALIASES, VALID_SUBSTANCES>>
                /\ admin_msg' = <<"alias_save_failed">>
        /\ updates' = updates + 1
        /\ last_update' = <<[alias_name |-> alias_name, target_name |-> target_name]>>
        /\ UNCHANGED <<info_run, embeds_to_send>>

\* An admin invokes /alias with the two texts (lines 324-341) and presses
\* Confirmar: ConfirmAliasView.confirm, lines 290-309.  write_ok tells whether
\* alias.json could be written; an IOError skips line 301.  No await stands
\* between line 294 and the message, so the update is one step.
ConfirmAliasView_confirm(alias_name, target_name, write_ok) ==
    LET normalized_alias == normalizar_texto(alias_name)
        normalized_target == strip(lower(target_name))
        table == ALIASES_set(ALIASES, normalized_alias, normalized_target)
        appended == IF list_contains(VALID_SUBSTANCES, normalized_target)
                    THEN VALID_SUBSTANCES
                    ELSE Append(VALID_SUBSTANCES, normalized_target)
    IN  /\ updates < MaxUpdates
        /\ ALIASES' = table
        /\ IF write_ok
           THEN /\ VALID_SUBSTANCES' \in list_of_set(ALIASES_values(table))
                /\ admin_msg' = <<"alias_saved">>
           ELSE /\ VALID_SUBSTANCES' = appended
                /\ admin_msg' = <<"alias_save_failed">>
        /\ updates' = updates + 1
        /\ last_update' = <<[alias_name |-> alias_name, target_name |-> target_name]>>
        /\ UNCHANGED <<info_run, embeds_to_send>>

\* The interaction is over: info has returned and the view of its message, if
\* any, has timed out (timeout=300).  Nothing of the run is kept but the alias
\* state, and the next /info can be invoked.
interaction_end ==
    /\ pc = "done"
    /\ pc' = "idle"
    /\ sustancia' = <<>>
    /\ sustancia_input_original' = <<>>
    /\ sustancia_input_normalizada' = <<>>
    /\ variables' = [name |-> <<>>]
    /\ substances' = <<>>
    /\ primary_resp' = <<>>
    /\ traducido' = <<>>
    /\ retry_resp' = <<>>
    /\ log' = <<>>
    /\ sent' = <<>>
    /\ crashed' = FALSE
    /\ info_data' = <<>>
    /\ embed' = <<>>
    /\ view' = <<>>
    /\ clicked' = <<>>
    /\ sugerencias' = <<>>
    /\ sugerencia_msg' = <<>>
    /\ UNCHANGED <<ALIASES, VALID_SUBSTANCES, alias_admin>>

Next ==
    \/ pc = "idle" /\ \E s \in Strings : info_start(s)
    \/ pc = "await_primary" /\ \E resp \in Responses : info_primary(resp)
    \/ pc = "translate" /\ \E tr \in Translations : info_translate(tr)
    \/ pc = "await_retry" /\ \E resp \in Responses : info_retry(resp)
    \/ view # <<>> /\ \E b \in 1..Len(view[1].children) : ROAButton_callback(b)
    \/ interaction_end

Spec == Init /\ [][Next]_vars

(***************************************************************************)
(* Alias updates between and during runs of /info                          *)
(***************************************************************************)
\* Primary answers of a run that is followed to its "not found" response or to
\* an API-failure message.
AliasResponses ==
    {[transport |-> "ok", status |-> 500, body |-> PlainBody("empty")],
     [transport |-> "ok", status |-> 200,
      body |-> [kind |-> "object", errors |-> "absent", data |-> "obj",
                substances |-> <<>>]]}

AliasNext ==
    \/ updates < MaxUpdates /\ \E alias_name, target_name \in AliasTexts, write_ok \in BOOLEAN :
          ConfirmAliasView_confirm(alias_name, target_name, write_ok)
    \/ pc = "idle" /\ \E s \in Strings : info_start(s)
    \/ pc = "await_primary" /\ \E resp \in AliasResponses : info_primary(resp)
    \/ pc = "translate" /\ info_translate([kind |-> "none", text |-> <<>>])
    \/ interaction_end

AliasSpec == Init /\ [][AliasNext]_vars

(***************************************************************************)
(* The suggestion step over any list of known names                        *)
(***************************************************************************)
\* Names a list of known names may hold: the empty name, names that differ in
\* length and names that differ by an accent.
NameCorpus == {<<>>, <<"a">>, <<"á">>, <<"a", "a">>, <<"a", "á">>}

NameLists == UNION {[1..n -> NameCorpus] : n \in 0..MaxNames}

\* A run of /info on the text s whose primary query found nothing (lines
\* 136-189), with any list of known names in VALID_SUBSTANCES.
SuggestInit ==
    \E s \in Strings, names \in NameLists :
        /\ ALIASES = InitialAliases
        /\ VALID_SUBSTANCES = names
        /\ pc = "translate"
        /\ sustancia = s
        /\ sustancia_input_original = strip(lower(s))
        /\ sustancia_input_normalizada = normalizar_texto(strip(lower(s)))
        /\ variables = [name |-> ALIASES_get(InitialAliases,
                                             normalizar_texto(strip(lower(s))),
                                             normalizar_texto(strip(lower(s))))]
        /\ substances = <<>>
        /\ primary_resp = <<[transport |-> "ok", status |-> 200,
                             body |-> [kind |-> "object", errors |-> "absent",
                                       data |-> "obj", substances |-> <<>>]]>>
        /\ traducido = <<>>
        /\ retry_resp = <<>>
        /\ log = <<"query", "completed">>
        /\ sent = <<>>
        /\ crashed = FALSE
        /\ info_data = <<>>
        /\ embed = <<>>
        /\ view = <<>>
        /\ clicked = <<>>
        /\ sugerencias = <<>>
        /\ sugerencia_msg = <<>>
        /\ updates = 0
        /\ admin_msg = <<>>
        /\ last_update = <<>>
        /\ embeds_to_send = <<>>

\* The run goes on with a translation that leads to no retried query, which
\* takes it to the suggestion step of lines 204-212.
SuggestNext ==
    \E tr \in {t \in Translations : ~should_retry(t, sustancia_input_original)} :
        info_translate(tr)

SuggestSpec == SuggestInit /\ [][SuggestNext]_vars

(***************************************************************************)
(* The /aliases listing                                                    *)
(***************************************************************************)
\* The text of n characters "a".
text_of_length(n) == [i \in 1..n |-> "a"]

\* Aliases and targets of a table to list: aliases short and long enough for
\* items of 9 or 10, of 1998 or 1999, of 3998 or 3999 and of 3999 or 4000
\* characters, with a target of no or one character.
ListedAliases == {text_of_length(n) : n \in {1, 1990, 3990, 3991}}
ListedTargets == {text_of_length(n) : n \in {0, 1}}

\* The alias tables to list: up to MaxAliases entries with distinct aliases.
ListedTables ==
    UNION {{table \in [1..n -> [alias : ListedAliases, target : ListedTargets]] :
               \A i, j \in 1..n : table[i].alias = table[j].alias => i = j} :
           n \in 0..MaxAliases}

\* Line 369: the ceiling of a page's description.
DescriptionLimit == 4000

\* Line 352: "No hay alias configurados actualmente."
NoAliasesText ==
    <<"N", "o", " ", "h", "a", "y", " ", "a", "l", "i", "a", "s", " ",
    "c", "o", "n", "f", "i", "g", "u", "r", "a", "d", "o", "s", " ", "a",
    "c", "t", "u", "a", "l", "m", "e", "n", "t", "e", ".">>

\* Line 358: the item of an entry, its alias and its target each between two
\* backquotes (written "#" here) with " -> " between them.
aliases_item(entry) ==
    <<"#">> \o entry.alias \o <<"#", " ", "-", ">", " ", "#">> \o entry.target \o <<"#">>

aliases_list(table) == [i \in 1..Len(table) |-> aliases_item(table[i])]

\* Lines 368-378: the loop over the items from the i-th on; the pair of
\* current_description and embeds_to_send (descriptions only) after it.
RECURSIVE aliases_loop(_, _, _, _)
aliases_loop(items, i, current_description, embeds) ==
    IF i > Len(items)
    THEN <<current_description, embeds>>
    ELSE LET item == items[i]
         IN  IF Len(current_description) + Len(item) + 1 > DescriptionLimit
             THEN aliases_loop(items, i + 1, item \o <<"\n">>,
                               Append(embeds, current_description))
             ELSE aliases_loop(items, i + 1, current_description \o item \o <<"\n">>,
                               embeds)

\* Lines 364-386: the descriptions of the embeds, the last one included.
aliases_descriptions(table) ==
    LET after == aliases_loop(aliases_list(table), 1, <<>>, <<>>)
    IN  IF after[1] # <<>> THEN Append(after[2], after[1]) ELSE after[2]

\* An admin invokes /aliases: lines 345-393.  Without aliases one embed says
\* so; otherwise the embeds of the listing are sent in order, the first under
\* the title of the list and the others as its continuation, each with the
\* footer "Página i+1 de n".
aliases ==
    /\ embeds_to_send = <<>>
    /\ embeds_to_send' =
          IF ALIASES = <<>>
          THEN <<[title |-> "list", description |-> NoAliasesText, footer |-> <<>>]>>
          ELSE LET descriptions == aliases_descriptions(ALIASES)
               IN  [i \in 1..Len(descriptions) |->
                       [title |-> IF i = 1 THEN "list" ELSE "continuation",
                        description |-> descriptions[i],
                        footer |-> <<i, Len(descriptions)>>]]
    /\ UNCHANGED <<ALIASES, VALID_SUBSTANCES, updates, admin_msg, last_update, info_run>>

\* Any alias table is loaded at startup, and /aliases lists it.
PagingInit ==
    \E table \in ListedTables :
        /\ ALIASES = table
        /\ VALID_SUBSTANCES = ALIASES_values(table)
        /\ pc = "idle"
        /\ sustancia = <<>>
        /\ sustancia_input_original = <<>>
        /\ sustancia_input_normalizada = <<>>
        /\ variables = [name |-> <<>>]
        /\ substances = <<>>
        /\ primary_resp = <<>>
        /\ traducido = <<>>
        /\ retry_resp = <<>>
        /\ log = <<>>
        /\ sent = <<>>
        /\ crashed = FALSE
        /\ info_data = <<>>
        /\ embed = <<>>
        /\ view = <<>>
        /\ clicked = <<>>
        /\ sugerencias = <<>>
        /\ sugerencia_msg = <<>>
        /\ updates = 0
        /\ admin_msg = <<>>
        /\ last_update = <<>>
        /\ embeds_to_send = <<>>

PagingNext == aliases

PagingSpec == PagingInit /\ [][PagingNext]_vars

(***************************************************************************)
(* Properties                                                              *)
(***************************************************************************)
\* How often the step ev occurs in the log lg.
Count(lg, ev) == Cardinality({i \in 1..Len(lg) : lg[i] = ev})

Occurs(seq, x) == \E i \in 1..Len(seq) : seq[i] = x

\* A query failure as section 4.3 of the specification lists it: a connection
\* error, a status that is no success, a body that cannot be parsed, an
\* envelope with an error list or without its data field.
QueryFailure(resp) ==
    \/ resp.transport = "client_error"
    \/ /\ resp.transport = "ok"
       /\ \/ resp.status \notin 200..299
          \/ resp.body.kind = "invalid"
          \/ /\ resp.body.kind = "object"
             /\ (resp.body.errors = "nonempty" \/ resp.body.data = "absent")

\* A well-formed, error-free answer (status 200, an object without errors
\* whose data holds the record list).
WellFormed(resp) ==
    /\ resp.transport = "ok"
    /\ resp.status = 200
    /\ resp.body.kind = "object"
    /\ resp.body.errors # "nonempty"
    /\ resp.body.data = "obj"

\* C1: if the primary query ends in a query failure, the run sends one
\* API-failure message and stops: the translator is not called, no second query
\* is issued, no suggestions are computed and "not found" is not sent.
C1_PrimaryFailureAborts ==
    (primary_resp # <<>> /\ QueryFailure(primary_resp[1])) =>
        /\ pc = "done"
        /\ Len(sent) = 1
        /\ sent[1] \in ApiFailureMessages
        /\ traducido = <<>>
        /\ Count(log, "translate") = 0
        /\ Count(log, "query") = 1
        /\ retry_resp = <<>>
        /\ Count(log, "suggest") = 0
        /\ ~Occurs(sent, "not_found")

C1_Witness ==
    /\ primary_resp # <<>>
    /\ primary_resp[1].transport = "ok"
    /\ primary_resp[1].status = 200
    /\ primary_resp[1].body.errors = "nonempty"
    /\ primary_resp[1].body.substances # <<>>
    /\ sent = <<"api_problem">>
    /\ log = <<"query", "completed", "send">>

\* C2: if the primary query returns a non-empty record list, the translator is
\* not called, no query is retried, no suggestions are computed, and the first
\* record of the list is the one presented.
C2_NonEmptyPrimarySkipsFallback ==
    (/\ primary_resp # <<>>
     /\ WellFormed(primary_resp[1])
     /\ primary_resp[1].body.substances # <<>>) =>
        /\ pc = "done"
        /\ traducido = <<>>
        /\ Count(log, "translate") = 0
        /\ Count(log, "query") = 1
        /\ retry_resp = <<>>
        /\ Count(log, "suggest") = 0
        /\ info_data = <<Head(primary_resp[1].body.substances)>>
        /\ embed # <<>>
        /\ embed[1].title.name = Head(primary_resp[1].body.substances).name
        /\ sent \in {<<"static">>, <<"interactive">>}

C2_Witness ==
    /\ primary_resp # <<>>
    /\ WellFormed(primary_resp[1])
    /\ Len(primary_resp[1].body.substances) = 2
    /\ primary_resp[1].body.substances[1] # primary_resp[1].body.substances[2]
    /\ info_data = <<primary_resp[1].body.substances[1]>>
    /\ sent = <<"interactive">>

\* C3: a zero-result success of the primary query (a well-formed answer with
\* an empty record list) is not reported as an API error: the run goes on to
\* the translator; suggestions are computed, and "not found" is sent, only
\* after the fallback has finished (the translator was called and every issued
\* query has completed) with the record list still empty.
C3_ZeroResultGoesToFallback ==
    (/\ primary_resp # <<>>
     /\ WellFormed(primary_resp[1])
     /\ primary_resp[1].body.substances = <<>>) =>
        /\ \A i \in 1..Len(sent) : sent[i] \notin ApiFailureMessages
        /\ pc \in {"translate", "await_retry", "done"}
        /\ pc # "translate" => (traducido # <<>> /\ Count(log, "translate") = 1)
        /\ \A k \in 1..Len(log) :
              log[k] = "suggest" =>
                 /\ \E i \in 1..(k - 1) : log[i] = "translate"
                 /\ Count(SubSeq(log, 1, k), "query")
                      = Count(SubSeq(log, 1, k), "completed")
                 /\ substances = <<>>
        /\ Occurs(sent, "not_found") <=> Occurs(log, "suggest")
        /\ pc = "done" => (substances = <<>> <=> sent = <<"not_found">>)
        /\ pc = "done" => (substances # <<>> <=> info_data # <<>>)

C3_Witness ==
    /\ primary_resp # <<>>
    /\ WellFormed(primary_resp[1])
    /\ primary_resp[1].body.substances = <<>>
    /\ retry_resp # <<>>
    /\ WellFormed(retry_resp[1])
    /\ retry_resp[1].body.substances = <<>>
    /\ log = <<"query", "completed", "translate", "query", "completed", "suggest", "send">>
    /\ sent = <<"not_found">>

\* The fallback failed: the translator raised, or the retried query is a
\* query failure.
FallbackFailed ==
    \/ traducido # <<>> /\ traducido[1].kind = "raise"
    \/ retry_resp # <<>> /\ QueryFailure(retry_resp[1])

\* C4: whenever the translator fails or the retried query is a query failure,
\* the fallback contributes an empty result: the run ends in the "not found"
\* response and no record of the failed retried query is presented.
C4_FailedFallbackContributesNothing ==
    FallbackFailed =>
        /\ pc = "done"
        /\ substances = <<>>
        /\ info_data = <<>>
        /\ sent = <<"not_found">>

\* C5: a run issues at most two API queries, and a query is issued only when
\* every query issued before it has completed: at most one is in flight, and
\* one is in flight exactly while the run awaits a post.
C5_AtMostTwoSequentialQueries ==
    /\ Count(log, "query") <= 2
    /\ \A k \in 1..Len(log) :
          log[k] = "query" =>
             Count(SubSeq(log, 1, k - 1), "query")
               = Count(SubSeq(log, 1, k - 1), "completed")
    /\ Count(log, "query") - Count(log, "completed")
         = (IF pc \in {"await_primary", "await_retry"} THEN 1 ELSE 0)
    /\ pc = "await_retry" => (primary_resp # <<>> /\ retry_resp = <<>>)

C5_Witness ==
    /\ pc = "done"
    /\ Count(log, "query") = 2
    /\ Count(log, "completed") = 2
    /\ retry_resp # <<>>
    /\ retry_resp[1].transport = "ok"

\* C6: after a zero-result primary query, the retried query is issued if and
\* only if the translator returns a non-empty string that differs from the
\* original input (sustancia_input_original, the text handed to the translator)
\* ignoring case; when the two are equal ignoring case the run issues no second
\* query and goes straight to the suggestions.
C6_RetryIffTranslationDiffers ==
    traducido # <<>> =>
        LET tr == traducido[1]
            differs == /\ tr.kind = "str"
                       /\ tr.text # <<>>
                       /\ lower(tr.text) # lower(sustancia_input_original)
        IN  /\ differs <=> Count(log, "query") = 2
            /\ differs => /\ SubSeq(log, 1, 4) = <<"query", "completed", "translate", "query">>
                          /\ variables.name = lower(tr.text)
            /\ ~differs => /\ log = <<"query", "completed", "translate", "suggest", "send">>
                           /\ retry_resp = <<>>
                           /\ sent = <<"not_found">>

C6_Witness ==
    /\ traducido = <<[kind |-> "str", text |-> <<"A">>]>>
    /\ sustancia_input_original = <<"a">>
    /\ retry_resp = <<>>
    /\ sent = <<"not_found">>

\* C7: every run ends by sending exactly one response; no exception leaves the
\* pipeline.
C7_ExactlyOneResponse ==
    /\ ~crashed
    /\ Len(sent) <= 1
    /\ pc = "done" => Len(sent) = 1

\* The index of an interactive view is an index of its record's ROA list.
ViewIndexInRange ==
    view # <<>> =>
        /\ info_data = <<view[1].info>>
        /\ view[1].current >= 0
        /\ view[1].current < Len(view[1].info.roas)

\* A message rendered for a record without ROAs (index 0 >= len(roas)) is the
\* base embed: no ROA title, no ROA fields, no footer.
GuardedRendering ==
    (info_data # <<>> /\ Len(info_data[1].roas) = 0) =>
        /\ embed # <<>>
        /\ embed[1].title.kind = "base"
        /\ embed[1].dose = <<>>
        /\ embed[1].footer = <<>>

\* A view is created at index 0.
ViewStartsAtZero ==
    (view = <<>> /\ view' # <<>>) => (view'[1].current = 0 /\ clicked' = <<>>)

\* The index of a view changes only when a button of that view is pressed:
\* the step records the button, moves to its index and leaves the run alone.
ViewMovesByNavigation ==
    (view # <<>> /\ view' # <<>> /\ view'[1].current # view[1].current) =>
        /\ \E b \in 1..Len(view[1].children) :
              /\ clicked' = <<view[1].children[b].index>>
              /\ view'[1].current = view[1].children[b].index
        /\ view'[1].info = view[1].info
        /\ UNCHANGED <<pc, log, sent, info_data, substances>>

\* C8: the index of an interactive ROA view is always in 0..len(roas)-1; the
\* view starts at index 0 and its index changes only by a navigation action;
\* rendering with an index >= len(roas) gives the base embed.
C8_ViewIndexAlwaysInRange ==
    /\ [](ViewIndexInRange /\ GuardedRendering)
    /\ [][ViewStartsAtZero /\ ViewMovesByNavigation]_vars

C8_Witness ==
    /\ view # <<>>
    /\ clicked # <<>>
    /\ view[1].current = Len(view[1].info.roas) - 1
    /\ view[1].current = 2

\* C9: a navigation action with target index j moves the view to (record, j),
\* the record being the one presented: the embed shows the data of the j-th
\* ROA and its footer reads position j + 1 of n, whatever was shown before.
C9_NavigationShowsTarget ==
    (view # <<>> /\ clicked # <<>>) =>
        LET j == clicked[1]
            record == info_data[1]
            n == Len(record.roas)
        IN  /\ j \in 0..(n - 1)
            /\ view[1].info = record
            /\ view[1].current = j
            /\ embed[1].title.kind = "roa"
            /\ embed[1].title.name = record.name
            /\ embed[1].title.roa = record.roas[j + 1].name
            /\ embed[1].dose = <<record.roas[j + 1].dose>>
            /\ embed[1].footer = <<j + 1, n>>

C9_Witness ==
    /\ view # <<>>
    /\ clicked = <<1>>
    /\ Len(info_data[1].roas) = 3
    /\ embed[1].footer = <<2, 3>>
    /\ embed[1].title.roa = "insufflated"

\* C10: the buttons of an interactive view are one per ROA of the record, in
\* ROA order, and exactly one carries the check mark: the button whose index is
\* the view's current index, which is the index of the ROA the embed shows.
C10_OneButtonPerRoaOneActive ==
    view # <<>> =>
        LET v == view[1]
            roas == v.info.roas
        IN  /\ Len(v.children) = Len(roas)
            /\ \A k \in 1..Len(roas) :
                  /\ v.children[k].index = k - 1
                  /\ v.children[k].label[2] = roas[k].name
                  /\ v.children[k].info = v.info
            /\ {k \in 1..Len(v.children) : v.children[k].emoji = "check"}
                 = {v.current + 1}
            /\ embed[1].footer = <<v.current + 1, Len(roas)>>
            /\ embed[1].title.roa = roas[v.current + 1].name

C10_Witness ==
    /\ view # <<>>
    /\ Len(view[1].children) = 3
    /\ view[1].current = 1
    /\ view[1].children[2].emoji = "check"
    /\ view[1].children[1].emoji = "none"

\* C11: the interactive view exists only for a presented record with at least
\* two ROAs.  A record with exactly one ROA is sent as one static message, the
\* embed of that ROA without a view; a record with no ROA is sent without a
\* view and its embed shows no ROA and no position.
C11_InteractiveOnlyFromTwoRoas ==
    /\ view # <<>> => info_data # <<>>
    /\ info_data # <<>> =>
          LET n == Len(info_data[1].roas)
          IN  /\ view # <<>> <=> n >= 2
              /\ n >= 2 => sent = <<"interactive">>
              /\ n = 1 => /\ sent = <<"static">>
                          /\ embed[1].title.kind = "roa"
                          /\ embed[1].footer = <<1, 1>>
              /\ n = 0 => /\ sent = <<"static">>
                          /\ embed[1].title.kind # "roa"
                          /\ embed[1].footer = <<>>

C11_Witness ==
    /\ info_data # <<>>
    /\ Len(info_data[1].roas) = 1
    /\ sent = <<"static">>
    /\ view = <<>>
    /\ embed[1].footer = <<1, 1>>

\* C13: a "not found" response always carries a suggestion line; it is the
\* "no suggestions" line when the suggestion search returned nothing, and the
\* "did you mean" line, with exactly the suggestions found, only when it
\* returned something.  No other response carries a suggestion line.
C13_EmptySuggestionsSaidExplicitly ==
    /\ Occurs(sent, "not_found") =>
          /\ sugerencia_msg # <<>>
          /\ sugerencias = <<>> =>
                sugerencia_msg[1] = [kind |-> "no_suggestions", names |-> <<>>]
          /\ sugerencia_msg[1].kind = "did_you_mean" =>
                (sugerencias # <<>> /\ sugerencia_msg[1].names = sugerencias)
          /\ sugerencia_msg[1].kind \in {"no_suggestions", "did_you_mean"}
    /\ ~Occurs(sent, "not_found") => (sugerencia_msg = <<>> /\ sugerencias = <<>>)

C13_Witness ==
    /\ sent = <<"not_found">>
    /\ sugerencias = <<>>
    /\ sugerencia_msg # <<>>
    /\ sugerencia_msg[1].kind = "no_suggestions"

\* C19: a primary response with a 2xx status, a body that parses to an object,
\* no error list and a data field that is present is never answered with an
\* API-failure message and never ends the run without a response: the run goes
\* on with its record list, empty or not.
C19_WellFormed2xxIsSuccess ==
    (/\ primary_resp # <<>>
     /\ primary_resp[1].transport = "ok"
     /\ primary_resp[1].status \in 200..299
     /\ primary_resp[1].body.kind = "object"
     /\ primary_resp[1].body.errors # "nonempty"
     /\ primary_resp[1].body.data # "absent") =>
        /\ \A i \in 1..Len(sent) : sent[i] \notin ApiFailureMessages
        /\ ~crashed
        /\ substances = primary_resp[1].body.substances \/ retry_resp # <<>>

\* C14: for every normalized input and every list of known names, the
\* suggestions of a "not found" response are at most 3, each is an entry of
\* the list of known names, and the similarity of each to the normalized input
\* (2 * matches / total length) is at least 0.6 = 3/5.
C14_SuggestionsWithinLimitAndCutoff ==
    Occurs(sent, "not_found") =>
        /\ Len(sugerencias) <= 3
        /\ \A i \in 1..Len(sugerencias) :
              /\ Occurs(VALID_SUBSTANCES, sugerencias[i])
              /\ LET r == ratio(sugerencias[i], sustancia_input_normalizada)
                 IN  5 * r[1] >= 3 * r[2]

\* Four known names clear the cutoff and three of them are suggested.
C14_Witness ==
    /\ sent = <<"not_found">>
    /\ Len(VALID_SUBSTANCES) = 4
    /\ \A i \in 1..4 :
          LET r == ratio(VALID_SUBSTANCES[i], sustancia_input_normalizada)
          IN  5 * r[1] >= 3 * r[2]
    /\ Len(sugerencias) = 3

\* The step that starts a run: /info reads the alias table (line 155).
RunStarts == pc = "idle" /\ pc' = "await_primary"

\* C12: the name of the primary query is the target the alias table holds for
\* the normalized input when the normalized input is one of its keys, and the
\* normalized input itself otherwise; in every state between runs, with any
\* table the updates have produced, the lookup goes through for every input.
C12_QueryNameIsAliasOrInput ==
    /\ [][RunStarts =>
            LET n == normalizar_texto(strip(lower(sustancia')))
                hits == {i \in 1..Len(ALIASES) : ALIASES[i].alias = n}
            IN  /\ sustancia_input_normalizada' = n
                /\ hits # {} => \A i \in hits : variables'.name = ALIASES[i].target
                /\ hits = {} => variables'.name = n]_vars
    /\ [](pc = "idle" => \A s \in Strings : ENABLED info_start(s))

\* A run that queries the target of an alias confirmed before it started.
C12_Witness ==
    /\ pc = "await_primary"
    /\ updates = 1
    /\ last_update[1].alias_name = <<"A">>
    /\ sustancia = <<"á">>
    /\ variables.name = <<"á">>
    /\ variables.name # sustancia_input_normalizada

\* C15: in every state the names of the list of known names are exactly the
\* targets of the alias table: none that is no target any more, none missing.
C15_KnownNamesAreTableValues ==
    {VALID_SUBSTANCES[i] : i \in 1..Len(VALID_SUBSTANCES)}
        = {ALIASES[i].target : i \in 1..Len(ALIASES)}

\* C16: in every state every entry of the list of known names is equal to its
\* own normalization.
C16_KnownNamesNormalized ==
    \A i \in 1..Len(VALID_SUBSTANCES) :
        normalizar_texto(VALID_SUBSTANCES[i]) = VALID_SUBSTANCES[i]

\* Every target of the alias table is in the list of known names.
TableCovered ==
    \A i \in 1..Len(ALIASES) : list_contains(VALID_SUBSTANCES, ALIASES[i].target)

\* The step is one whole confirmed update: one key has its new target, every
\* other entry is as before, and the list of known names holds the new target
\* and is either rebuilt from the table or the old list, extended if needed.
WholeUpdate ==
    /\ updates' = updates + 1
    /\ \E i \in 1..Len(ALIASES') :
          LET k == ALIASES'[i].alias
              t == ALIASES'[i].target
          IN  /\ \A j \in 1..Len(ALIASES') :
                    j # i => /\ ALIASES'[j].alias # k
                             /\ \E h \in 1..Len(ALIASES) : ALIASES[h] = ALIASES'[j]
              /\ \A h \in 1..Len(ALIASES) :
                    ALIASES[h].alias # k =>
                        \E j \in 1..Len(ALIASES') : ALIASES'[j] = ALIASES[h]
              /\ list_contains(VALID_SUBSTANCES', t)
              /\ \/ {VALID_SUBSTANCES'[j] : j \in 1..Len(VALID_SUBSTANCES')}
                      = {ALIASES'[j].target : j \in 1..Len(ALIASES')}
                 \/ VALID_SUBSTANCES' = VALID_SUBSTANCES
                 \/ VALID_SUBSTANCES' = Append(VALID_SUBSTANCES, t)

\* C17: with alias updates confirmed while runs are in flight, the alias state
\* changes only by whole updates, one step each, no step of a run changes it,
\* and in every state, so wherever a run reads the table or the list of known
\* names, every target of the table is in the list.
C17_NoPartialAliasState ==
    /\ []TableCovered
    /\ [][/\ <<ALIASES, VALID_SUBSTANCES>>' # <<ALIASES, VALID_SUBSTANCES>> => WholeUpdate
          /\ info_run' # info_run => UNCHANGED <<ALIASES, VALID_SUBSTANCES>>]_vars

\* An update was confirmed after the run read the table and before it read the
\* list of known names.
C17_Witness ==
    /\ updates = 1
    /\ sent = <<"not_found">>
    /\ variables.name # ALIASES_get(ALIASES, sustancia_input_normalizada,
                                    sustancia_input_normalizada)
    /\ sugerencias = get_close_matches(sustancia_input_normalizada, VALID_SUBSTANCES)
    /\ sugerencias # get_close_matches(sustancia_input_normalizada,
                                       ALIASES_values(InitialAliases))

\* The last confirmation could not write alias.json.
WriteFailed == last_update # <<>> /\ admin_msg # <<"alias_saved">>

\* C18: when the file write of a confirmed update fails, the admin is sent the
\* failure message and not the success message, the table holds the new entry,
\* and a run started afterwards on the alias queries the new target.
C18_FailedWriteKeepsAlias ==
    /\ [](WriteFailed =>
            /\ admin_msg = <<"alias_save_failed">>
            /\ \E i \in 1..Len(ALIASES) :
                  /\ ALIASES[i].alias = normalizar_texto(last_update[1].alias_name)
                  /\ ALIASES[i].target = strip(lower(last_update[1].target_name)))
    /\ [][(/\ WriteFailed
           /\ RunStarts
           /\ sustancia_input_normalizada'
                = normalizar_texto(last_update[1].alias_name)) =>
             variables'.name = strip(lower(last_update[1].target_name))]_vars

C18_Witness ==
    /\ admin_msg = <<"alias_save_failed">>
    /\ last_update[1] = [alias_name |-> <<"a">>, target_name |-> <<"á">>]
    /\ pc = "await_primary"
    /\ sustancia = <<"A">>
    /\ variables.name = <<"á">>

\* C20: after the update (a, t) is confirmed, a run of /info on the same text
\* a queries t lower-cased and trimmed, as long as that update is the last.
C20_AliasRoundTrip ==
    [][(last_update # <<>> /\ RunStarts /\ sustancia' = last_update[1].alias_name) =>
          variables'.name = strip(lower(last_update[1].target_name))]_vars

\* C21: the suggestions of a "not found" response never hold the same name
\* twice, in every state of the alias data, the one loaded at startup included.
C21_SuggestionsWithoutDuplicates ==
    \A i, j \in 1..Len(sugerencias) :
        sugerencias[i] = sugerencias[j] => i = j

\* The concatenation of the texts of a sequence of texts.
RECURSIVE join(_)
join(texts) == IF texts = <<>> THEN <<>> ELSE texts[1] \o join(Tail(texts))

\* C22: for every alias table the description of every page of the listing is
\* not empty and at most 4000 characters long, and the pages, read in order,
\* hold the line of every alias entry exactly once, in table order.
C22_PagesWithinLimitAndComplete ==
    embeds_to_send # <<>> =>
        /\ \A i \in 1..Len(embeds_to_send) :
              /\ embeds_to_send[i].description # <<>>
              /\ Len(embeds_to_send[i].description) <= 4000
        /\ ALIASES # <<>> =>
              join([i \in 1..Len(embeds_to_send) |-> embeds_to_send[i].description])
                = join([i \in 1..Len(ALIASES) |->
                           aliases_item(ALIASES[i]) \o <<"\n">>])

====
